---- MODULE Spec2Model ----
(***************************************************************************)
(* Model of the two buzz-video pipelines of the repository:                *)
(*   search_innertube.py  (InnerTubeSearcher + main, prog = "innertube")   *)
(*   search_youtube.py    (YouTubeSearcher  + main, prog = "youtube")      *)
(* Spec      : one run of either main, step by step.                       *)
(* SpecCache : sequences of get_channel_subscribers calls on one searcher. *)
(***************************************************************************)
EXTENDS Integers, Sequences, FiniteSets, TLC

VARIABLES
    prog,            \* which script runs: "innertube" or "youtube"
    pc,              \* position of main
    args,            \* parsed command line of search_youtube.py (max_results, min_views, max_subscribers)
    trending_ids,    \* main: trending_ids
    home_ids,        \* main: home_ids
    all_video_ids,   \* main: all_video_ids
    next_page_token, \* search_videos: next_page_token ("" is None)
    videos,          \* main: videos (detail records / search results)
    channel_cache,   \* searcher.channel_cache : channel id -> Optional[int]
    filtered,        \* main: filtered_videos
    stats,           \* filter_videos: the printed stage counters
    csv,             \* the output file: [state, rows]
    exit_status,     \* "running", "0" (normal return), "1" (sys.exit(1)), "sigint"
    queries,         \* log: channel id -> number of lookups issued on the channel source
    requests,        \* log: the API requests issued, in order
    calls,           \* log: the get_channel_subscribers calls made, in order
    log,             \* what was reported: ids of skipped lookups, "interrupted", "error"
    input,           \* the argument of a single call of a method under study
    output           \* what that call did and returned

vars == <<prog, pc, args, trending_ids, home_ids, all_video_ids, next_page_token, videos,
          channel_cache, filtered, stats, csv, exit_status, queries, requests, calls, log,
          input, output>>

----------------------------------------------------------------------------
(* Program constants *)

IdLength == 11             \* len(video_id) == 11
WindowDays == 180          \* timedelta(days=180)
SubscriberCeiling == 10000 \* subscriber_count >= 10000
ViewMultiplier == 3        \* subscriber_count * 3
BatchSize == 50            \* range(0, len(ids), 50)
NoneVal == -1              \* Python's None in an Optional[int]

(* Bounds of the model *)

Now == 200                 \* datetime.now(timezone.utc), in days
MaxItems == 2              \* renderers in one browse response
MaxCalls == 2              \* get_channel_subscribers calls in SpecCache
MaxListLen == 2            \* length of the channel_ids list of such a call
MaxPages == 2              \* pages a search may return
MaxResultsArg == 2         \* largest --max-results tried
MaxTextLen == 4            \* characters of a subscriber text before its wording
MaxDigits == 3             \* digits among them

----------------------------------------------------------------------------
(* Generic helpers *)

Range(s) == {s[i] : i \in DOMAIN s}

SeqsUpTo(S, n) == UNION {[1..k -> S] : k \in 0..n}

NoDuplicates(s) == \A i, j \in DOMAIN s : s[i] = s[j] => i = j
DistinctSeqsUpTo(S, n) == {s \in SeqsUpTo(S, n) : NoDuplicates(s)}

\* all orders in which list(set(...)) may enumerate the set S
Orders(S) == {s \in [1..Cardinality(S) -> S] : Range(s) = S}

----------------------------------------------------------------------------
(* The untyped response tree of client.browse(...) and its traversal *)

StrNode(s) == [t |-> "str", s |-> s, kids |-> <<>>]
NumNode == [t |-> "num", s |-> "", kids |-> <<>>]
Entry(k, v) == [key |-> k, val |-> v]
DictNode(entries) == [t |-> "dict", s |-> "", kids |-> entries]
ListNode(items) == [t |-> "list", s |-> "", kids |-> [i \in DOMAIN items |-> Entry("", items[i])]]

HasKey(obj, k) == \E i \in DOMAIN obj.kids : obj.kids[i].key = k
Lookup(obj, k) == obj.kids[CHOOSE i \in DOMAIN obj.kids : obj.kids[i].key = k].val

RECURSIVE recursive_find_video_ids(_, _)
RECURSIVE FindInKids(_, _, _)
\* the two for-loops of _recursive_find_video_ids: recurse into every value
FindInKids(kids, i, video_ids) ==
    IF i > Len(kids) THEN video_ids
    ELSE FindInKids(kids, i + 1, recursive_find_video_ids(kids[i].val, video_ids))

recursive_find_video_ids(obj, video_ids) ==
    IF obj.t = "dict" THEN
        LET found ==
                IF HasKey(obj, "videoId")
                   /\ Lookup(obj, "videoId").t = "str"
                   /\ Len(Lookup(obj, "videoId").s) = IdLength
                THEN Append(video_ids, Lookup(obj, "videoId").s)
                ELSE video_ids
        IN FindInKids(obj.kids, 1, found)
    ELSE IF obj.t = "list" THEN FindInKids(obj.kids, 1, video_ids)
    ELSE video_ids

\* parse_video_ids: list(set(...)) of the harvest, in any enumeration order
parse_video_ids(response) == Orders(Range(recursive_find_video_ids(response, <<>>)))

ValidIds == {"aaaaaaaaaaa", "bbbbbbbbbbb"}
IdValues == {StrNode(v) : v \in ValidIds} \cup {StrNode("short10chr"), NumNode}

\* one renderer of a feed: a dict with or without a videoId key; the value
\* under videoId may itself be a dict
Renderers ==
    {DictNode(<<Entry("videoId", v)>>) : v \in IdValues}
    \cup {DictNode(<<Entry("title", StrNode("x"))>>)}
    \cup {DictNode(<<Entry("videoId", DictNode(<<Entry("videoId", StrNode("aaaaaaaaaaa"))>>))>>)}

BrowseResponses ==
    {DictNode(<<Entry("contents", ListNode(items))>>) : items \in SeqsUpTo(Renderers, MaxItems)}
    \cup {DictNode(<<Entry("videoId", StrNode("bbbbbbbbbbb")),
                     Entry("contents", ListNode(<<r>>))>>) : r \in Renderers}

----------------------------------------------------------------------------
(* Texts, as sequences of characters, and _parse_subscriber_count.       *)
(* A CJK character is written as one token: <man> is U+4E07 (ten          *)
(* thousand), <sen> is U+5343 (thousand), <tou><roku><sha> is the word     *)
(* for subscriber (U+767B U+9332 U+8005).                                  *)

Digits == <<"0", "1", "2", "3", "4", "5", "6", "7", "8", "9">>
IsDigit(c) == \E i \in DOMAIN Digits : Digits[i] = c
DigitVal(c) == (CHOOSE i \in DOMAIN Digits : Digits[i] = c) - 1
IsNumChar(c) == IsDigit(c) \/ c = "." \/ c = ","       \* [\d.,]
IsSpace(c) == c = " "                                   \* \s
IsUnit(c) == c \in {"<man>", "<sen>", "K", "k", "M", "m"}      \* [<man><sen>KkMm]

UpperCase == <<"B", "C", "E", "I", "K", "M", "R", "S", "U">>
LowerCase == <<"b", "c", "e", "i", "k", "m", "r", "s", "u">>
Lower(c) == IF \E i \in DOMAIN UpperCase : UpperCase[i] = c
            THEN LowerCase[CHOOSE i \in DOMAIN UpperCase : UpperCase[i] = c]
            ELSE c
LowerText(text) == [i \in DOMAIN text |-> Lower(text[i])]

\* pat in text
Contains(text, pat) ==
    \E i \in 1..(Len(text) - Len(pat) + 1) : SubSeq(text, i, i + Len(pat) - 1) = pat

RECURSIVE Pow10(_)
Pow10(n) == IF n = 0 THEN 1 ELSE 10 * Pow10(n - 1)

RECURSIVE DigitsValue(_)
DigitsValue(ds) ==
    IF ds = <<>> THEN 0
    ELSE 10 * DigitsValue(SubSeq(ds, 1, Len(ds) - 1)) + DigitVal(ds[Len(ds)])

\* end of the greedy run [\d.,]+ that starts at i
RECURSIVE RunEnd(_, _)
RunEnd(text, i) ==
    IF i < Len(text) /\ IsNumChar(text[i + 1]) THEN RunEnd(text, i + 1) ELSE i

\* position after the greedy \s* that starts at i
RECURSIVE SkipSpace(_, _)
SkipSpace(text, i) ==
    IF i <= Len(text) /\ IsSpace(text[i]) THEN SkipSpace(text, i + 1) ELSE i

(* Python's float is an IEEE 754 double: float(s) is the double nearest to  *)
(* the decimal s, number *= scale rounds the exact product to the nearest  *)
(* double (ties to even), int(number) truncates. A double is written       *)
(* [m, k] for m / 2^k with m < 2^53; m is a natural number of LimbCount    *)
(* limbs in base LimbBase, least significant limb first.                   *)

MantissaBits == 53
LimbBase == 10000
LimbCount == 6

Big(n) == [i \in 1..LimbCount |->
              IF i = 1 THEN n % LimbBase
              ELSE IF i = 2 THEN (n \div LimbBase) % LimbBase
              ELSE IF i = 3 THEN n \div (LimbBase * LimbBase)
              ELSE 0]

RECURSIVE MulFrom(_, _, _, _)
MulFrom(a, s, i, carry) ==
    IF i > LimbCount THEN <<>>
    ELSE <<(a[i] * s + carry) % LimbBase>>
             \o MulFrom(a, s, i + 1, (a[i] * s + carry) \div LimbBase)

\* a * s for 0 <= s <= LimbBase
BigMul(a, s) == MulFrom(a, s, 1, 0)

RECURSIVE DivFrom(_, _, _, _, _)
DivFrom(a, s, i, rem, q) ==
    IF i = 0 THEN [q |-> q, r |-> rem]
    ELSE DivFrom(a, s, i - 1, (rem * LimbBase + a[i]) % s,
                 [q EXCEPT ![i] = (rem * LimbBase + a[i]) \div s])

\* quotient and remainder of a by s, 0 < s <= LimbBase
BigDiv(a, s) == DivFrom(a, s, LimbCount, 0, a)

BigLess(a, b) ==
    \E i \in 1..LimbCount : a[i] < b[i] /\ \A j \in (i + 1)..LimbCount : a[j] = b[j]

BigOdd(a) == a[1] % 2 = 1

RECURSIVE IncFrom(_, _)
IncFrom(a, i) ==
    IF i > LimbCount THEN a
    ELSE IF a[i] + 1 < LimbBase THEN [a EXCEPT ![i] = @ + 1]
    ELSE IncFrom([a EXCEPT ![i] = 0], i + 1)

BigInc(a) == IncFrom(a, 1)

\* 2^n, 13 bits at a time
RECURSIVE BigPow2(_)
BigPow2(n) == IF n <= 13 THEN Big(2 ^ n) ELSE BigMul(BigPow2(n - 13), 2 ^ 13)

MantissaMin == BigPow2(MantissaBits - 1)
MantissaEnd == BigPow2(MantissaBits)

\* a natural number below 2^31 as an integer
BigToInt(a) == a[1] + a[2] * LimbBase + a[3] * LimbBase * LimbBase

\* round to nearest, ties to even
RoundEven(q, half, sticky) ==
    IF half /\ (sticky \/ BigOdd(q)) THEN BigInc(q) ELSE q

\* the smallest k with a * 2^k >= least, and a * 2^k; 13, 4 or 1 bits at a time
RECURSIVE ScaleUp(_, _, _)
ScaleUp(a, least, k) ==
    IF ~ BigLess(a, least) THEN [m |-> a, k |-> k]
    ELSE LET step == IF BigLess(BigMul(a, 2 ^ 13), least) THEN 13
                     ELSE IF BigLess(BigMul(a, 2 ^ 4), least) THEN 4
                     ELSE 1
         IN ScaleUp(BigMul(a, 2 ^ step), least, k + step)

\* float("<digits of mantissa with frac decimals>"), mantissa > 0
FloatOf(mantissa, frac) ==
    LET den == Pow10(frac) IN
    \* sc.k is the smallest k with mantissa * 2^k / den >= 2^52
    LET sc == ScaleUp(Big(mantissa), BigMul(MantissaMin, den), 0)
        d == BigDiv(sc.m, den)
    IN [m |-> RoundEven(d.q, 2 * d.r >= den, 2 * d.r > den), k |-> sc.k]

\* p / 2^k rounded to a mantissa below 2^53: bits are shifted out 13, 4 or 1
\* at a time; half is the last bit shifted out, sticky whether an earlier one
\* was set
RECURSIVE Shrink(_, _, _, _)
Shrink(p, k, half, sticky) ==
    IF BigLess(p, MantissaEnd) THEN [m |-> RoundEven(p, half, sticky), k |-> k]
    ELSE LET step == IF ~ BigLess(BigDiv(p, 2 ^ 13).q, MantissaEnd) THEN 13
                     ELSE IF ~ BigLess(BigDiv(p, 2 ^ 4).q, MantissaEnd) THEN 4
                     ELSE 1
             d == BigDiv(p, 2 ^ step)
         IN Shrink(d.q, k - step, d.r >= 2 ^ (step - 1),
                   sticky \/ half \/ d.r % (2 ^ (step - 1)) # 0)

\* number *= scale, scale a power of ten up to 10^6
FloatMul(x, scale) ==
    IF scale = 1 THEN x
    ELSE IF scale <= LimbBase THEN Shrink(BigMul(x.m, scale), x.k, FALSE, FALSE)
    ELSE Shrink(BigMul(BigMul(x.m, 1000), scale \div 1000), x.k, FALSE, FALSE)

\* floor(m / 2^k), dividing by at most 2^13 at a time
RECURSIVE Floor(_, _)
Floor(m, k) ==
    IF k <= 13 THEN BigToInt(BigDiv(m, 2 ^ k).q)
    ELSE Floor(BigDiv(m, 2 ^ 13).q, k - 13)

\* int(number) for 0 <= number < 2^31
FloatToInt(x) == Floor(x.m, x.k)

UnitScale(u) ==
    IF u = "<man>" THEN 10000
    ELSE IF u \in {"K", "k"} THEN 1000
    ELSE IF u = "<sen>" THEN 1000
    ELSE IF u \in {"M", "m"} THEN 1000000
    ELSE 1

\* _parse_subscriber_count(text): NoneVal or the integer count
parse_subscriber_count(text) ==
    IF ~ \E i \in DOMAIN text : IsNumChar(text[i]) THEN NoneVal
    ELSE
        LET start == CHOOSE i \in DOMAIN text :
                        IsNumChar(text[i]) /\ \A j \in 1..(i - 1) : ~ IsNumChar(text[j])
            end == RunEnd(text, start)
            group1 == SubSeq(text, start, end)
            nocomma == SelectSeq(group1, LAMBDA c : c # ",")
            dots == {i \in DOMAIN nocomma : nocomma[i] = "."}
            after == SkipSpace(text, end + 1)
            unit == IF after <= Len(text) /\ IsUnit(text[after]) THEN text[after] ELSE ""
        IN  \* float() raises ValueError: no digit, or more than one decimal point
            IF Cardinality(dots) > 1 \/ ~ \E i \in DOMAIN nocomma : IsDigit(nocomma[i])
            THEN NoneVal
            ELSE
                LET frac == IF dots = {} THEN 0
                            ELSE Len(nocomma) - (CHOOSE i \in dots : TRUE)
                    mantissa == DigitsValue(SelectSeq(nocomma, LAMBDA c : c # "."))
                IN IF mantissa = 0 THEN 0
                   ELSE FloatToInt(FloatMul(FloatOf(mantissa, frac), UnitScale(unit)))

TxtSubscribers == <<" ", "s", "u", "b", "s", "c", "r", "i", "b", "e", "r", "s">>
TxtTouroku == <<"<nin>", "<no>", "<tou>", "<roku>", "<sha>">>

----------------------------------------------------------------------------
(* Python dict helpers *)

EmptyDict == [k \in {} |-> NoneVal]
Put(d, k, v) == [x \in DOMAIN d \cup {k} |-> IF x = k THEN v ELSE d[x]]
\* d.get(k): None when the key is absent
DictGet(d, k) == IF k \in DOMAIN d THEN d[k] ELSE NoneVal

----------------------------------------------------------------------------
(* InnerTubeSearcher.get_channel_subscribers *)

ChannelIds == {"UC1", "UC2"}

Part(has, text) == [has |-> has, text |-> text]
ChanResp(kind, simple, text, rows) ==
    [kind |-> kind, simple |-> simple, text |-> text, rows |-> rows]

\* what client.browse(browse_id=channel_id) may answer
ChannelResponses ==
    {ChanResp("raise", FALSE, <<>>, <<>>),
     ChanResp("noheader", FALSE, <<>>, <<>>),
     ChanResp("c4", FALSE, <<>>, <<>>),
     ChanResp("c4", TRUE, <<"0">> \o TxtSubscribers, <<>>),
     ChanResp("c4", TRUE, <<"1", "K">> \o TxtSubscribers, <<>>),
     ChanResp("c4", TRUE, <<"1", "<man>">> \o TxtTouroku, <<>>),
     ChanResp("page", FALSE, <<>>,
              << <<Part(FALSE, <<>>), Part(TRUE, <<"@", "x">>),
                   Part(TRUE, <<"9", ",", "9", "9", "9">> \o TxtSubscribers)>> >>),
     ChanResp("page", FALSE, <<>>,
              << <<Part(TRUE, <<"<tou>", "<roku>", "<sha>", "<hi>", "<kou>", "<kai>">>)>> >>),
     ChanResp("page", FALSE, <<>>,
              << <<Part(TRUE, <<"1", "K">> \o TxtSubscribers)>>,
                 <<Part(TRUE, <<"0">> \o TxtSubscribers),
                   Part(TRUE, <<"7">> \o TxtSubscribers)>> >>)}

MentionsSubscribers(text) ==
    \/ Contains(text, <<"<tou>", "<roku>", "<sha>">>)
    \/ Contains(LowerText(text), <<"s", "u", "b", "s", "c", "r", "i", "b", "e", "r">>)

\* the loops over metadataRows / metadataParts: the break leaves the inner loop only
RECURSIVE PageRows(_, _, _)
PageRows(rows, i, subscriber_count) ==
    IF i > Len(rows) THEN subscriber_count
    ELSE LET row == rows[i]
             hits == {j \in DOMAIN row : row[j].has /\ MentionsSubscribers(row[j].text)}
         IN PageRows(rows, i + 1,
                     IF hits = {} THEN subscriber_count
                     ELSE parse_subscriber_count(
                              row[CHOOSE j \in hits : \A h \in hits : j <= h].text))

\* the body of the try block for one channel: the value stored in the cache
SubscriberCountOf(resp) ==
    IF resp.kind = "raise" THEN NoneVal                  \* except Exception: cache None
    ELSE IF resp.kind = "c4" THEN
        IF resp.simple THEN parse_subscriber_count(resp.text) ELSE NoneVal
    ELSE IF resp.kind = "page" THEN PageRows(resp.rows, 1, NoneVal)
    ELSE NoneVal

\* the value each possible response leaves in the cache
CountOfResponse == [resp \in ChannelResponses |-> SubscriberCountOf(resp)]

\* variant: every id asked for is looked up again
Uncached_All(cache, channel_ids) == channel_ids

\* uncached_ids = [cid for cid in channel_ids if cid not in self.channel_cache]
Uncached(cache, channel_ids) == SelectSeq(channel_ids, LAMBDA cid : cid \notin DOMAIN cache)

\* the for loop over uncached_ids from its i-th id on
RECURSIVE LookupLoopIT(_, _, _, _)
LookupLoopIT(acc, uncached_ids, src, i) ==
    IF i > Len(uncached_ids) THEN acc
    ELSE LookupLoopIT(
             [cache |-> Put(acc.cache, uncached_ids[i], CountOfResponse[src[i]]),
              looked |-> Append(acc.looked, uncached_ids[i]),
              warned |-> IF src[i].kind = "raise" THEN acc.warned \cup {uncached_ids[i]}
                         ELSE acc.warned],
             uncached_ids, src, i + 1)

\* get_channel_subscribers(channel_ids), src[i] being the answer to the i-th lookup:
\* the new cache, the lookups issued and the returned dict
get_channel_subscribers_it(cache, channel_ids, src) ==
    LET uncached_ids == Uncached(cache, channel_ids)
        done == LookupLoopIT([cache |-> cache, looked |-> <<>>, warned |-> {}],
                             uncached_ids, src, 1)
    IN [cache |-> done.cache,
        looked |-> done.looked,
        warned |-> done.warned,
        raised |-> FALSE,
        ret |-> [cid \in Range(channel_ids) |-> DictGet(done.cache, cid)]]

----------------------------------------------------------------------------
(* InnerTubeSearcher.get_video_details *)

Fld(k, v) == [k |-> k, v |-> v]
PlayerResp(kind, channelId, viewCount, lengthSeconds, publishDate) ==
    [kind |-> kind, title |-> "title", channelId |-> channelId, author |-> "author",
     viewCount |-> viewCount, lengthSeconds |-> lengthSeconds, publishDate |-> publishDate]

Cutoff == Now - WindowDays

NoDate == [kind |-> "none", t |-> 0]

\* datetime.fromisoformat(publish_date_str.replace('Z', '+00:00')) and its except
\* ValueError; "date" is a date without time zone, which parses to a naive datetime
ParsePublishDate(pd) ==
    IF pd.k \in {"absent", "empty"} THEN NoDate
    ELSE IF pd.k = "malformed" THEN NoDate
    ELSE IF pd.k = "date" THEN [kind |-> "naive", t |-> pd.v]
    ELSE [kind |-> "aware", t |-> pd.v]

\* int(video_details.get(key, 0))
IntRaises(f) == f.k = "bad"
IntOf(f) == IF f.k = "absent" THEN 0 ELSE f.v

VideoRecord(video_id, resp) ==
    [video_id |-> video_id, title |-> resp.title, channel_id |-> resp.channelId,
     channel_name |-> resp.author, view_count |-> IntOf(resp.viewCount),
     length_seconds |-> IntOf(resp.lengthSeconds),
     publish_date |-> ParsePublishDate(resp.publishDate),
     subscriber_count |-> NoneVal]

\* the try block of one iteration ends in the except clause (the id is skipped)
DetailFails(resp) ==
    \/ resp.kind = "raise"
    \/ IntRaises(resp.viewCount)
    \/ IntRaises(resp.lengthSeconds)
    \/ resp.publishDate.k = "nonstr"

DetailSkipped(resp) == resp.kind = "nodetails" \/ DetailFails(resp)

NoDetails == [videos |-> <<>>, warned |-> {}]

\* variant: the first failing id ends the loop
RECURSIVE get_video_details_Abort(_, _, _, _)
get_video_details_Abort(video_ids, src, i, out) ==
    IF i > Len(video_ids) THEN out
    ELSE IF DetailSkipped(src[i])
         THEN [out EXCEPT !.warned = @ \cup {video_ids[i]}]
         ELSE get_video_details_Abort(video_ids, src, i + 1,
                  [out EXCEPT !.videos = Append(@, VideoRecord(video_ids[i], src[i]))])

\* the for loop of get_video_details from its i-th id on; src[i] is the answer
\* of client.player for the i-th id, out.warned the ids a warning was logged for
RECURSIVE get_video_details(_, _, _, _)
get_video_details(video_ids, src, i, out) ==
    IF i > Len(video_ids) THEN out
    ELSE get_video_details(video_ids, src, i + 1,
             IF DetailSkipped(src[i])
             THEN [out EXCEPT !.warned = @ \cup {video_ids[i]}]
             ELSE [out EXCEPT !.videos = Append(@, VideoRecord(video_ids[i], src[i]))])

OkLen == Fld("num", 60)
RecentDate == Fld("iso", Now - 1)

\* what client.player(video_id=...) may answer
PlayerResponses ==
    {PlayerResp("raise", "", Fld("absent", 0), OkLen, Fld("absent", 0)),
     PlayerResp("nodetails", "", Fld("absent", 0), OkLen, Fld("absent", 0)),
     PlayerResp("ok", "UC1", Fld("bad", 0), OkLen, RecentDate),
     PlayerResp("ok", "UC1", Fld("num", 3000), Fld("bad", 0), RecentDate),
     PlayerResp("ok", "UC1", Fld("num", 3000), OkLen, Fld("nonstr", 0)),
     PlayerResp("ok", "", Fld("num", 3000), OkLen, RecentDate)}
    \cup {PlayerResp("ok", "UC1", v, OkLen, RecentDate) :
             v \in {Fld("absent", 0), Fld("num", 100), Fld("num", 2999),
                    Fld("num", 3000), Fld("num", 30000)}}
    \cup {PlayerResp("ok", "UC2", v, OkLen, RecentDate) :
             v \in {Fld("num", 100), Fld("num", 3000)}}
    \cup {PlayerResp("ok", "UC2", Fld("num", 3000), OkLen, d) :
             d \in {Fld("absent", 0), Fld("empty", 0), Fld("malformed", 0),
                    Fld("date", Now - 1), Fld("isoZ", Cutoff - 1), Fld("iso", Cutoff)}}

----------------------------------------------------------------------------
(* InnerTubeSearcher.filter_videos *)

\* variant: an unknown timestamp is not rejected
TooOld_KnownOnly(publish_date, six_months_ago) ==
    publish_date.kind # "none" /\ publish_date.t < six_months_ago

\* variant: a timestamp equal to the cutoff is rejected
TooOld_Inclusive(publish_date, six_months_ago) ==
    publish_date.kind = "none" \/ publish_date.t <= six_months_ago

\* not publish_date or publish_date < six_months_ago
TooOld(publish_date, six_months_ago) ==
    publish_date.kind = "none" \/ publish_date.t < six_months_ago

\* comparing a naive datetime with the aware six_months_ago raises TypeError
CompareRaises(publish_date) == publish_date.kind = "naive"

\* variant: a channel exactly at the ceiling is kept
TooBigIT_Above(subscriber_count) == subscriber_count > SubscriberCeiling

\* subscriber_count >= 10000
TooBigIT(subscriber_count) == subscriber_count >= SubscriberCeiling

\* variant: view_count equal to the threshold is rejected
TooFewViews_Inclusive(view_count, subscriber_count) ==
    view_count <= subscriber_count * ViewMultiplier

\* view_count < subscriber_count * 3
TooFewViews(view_count, subscriber_count) ==
    view_count < subscriber_count * ViewMultiplier

Bump(st, key) == [st EXCEPT ![key] = @ + 1]

NoStats == [total |-> 0, recent |-> 0, small_channel |-> 0, buzz |-> 0]

\* variant: the subscriber ceiling is tested before the recency window
StageOf_CeilingFirst(video, channel_subscribers, six_months_ago) ==
    LET subscriber_count == DictGet(channel_subscribers, video.channel_id)
    IN IF subscriber_count = NoneVal THEN "no_subscribers"
       ELSE IF CompareRaises(video.publish_date) THEN "raise"
       ELSE IF TooBigIT(subscriber_count) THEN "big"
       ELSE IF TooOld(video.publish_date, six_months_ago) THEN "old"
       ELSE IF TooFewViews(video.view_count, subscriber_count) THEN "few_views"
       ELSE "buzz"

\* the stage at which the loop body leaves a record
StageOf(video, channel_subscribers, six_months_ago) ==
    LET subscriber_count == DictGet(channel_subscribers, video.channel_id)
    IN IF subscriber_count = NoneVal THEN "no_subscribers"
       ELSE IF CompareRaises(video.publish_date) THEN "raise"
       ELSE IF TooOld(video.publish_date, six_months_ago) THEN "old"
       ELSE IF TooBigIT(subscriber_count) THEN "big"
       ELSE IF TooFewViews(video.view_count, subscriber_count) THEN "few_views"
       ELSE "buzz"

RECURSIVE FilterLoopIT(_, _, _, _)
FilterLoopIT(i, channel_subscribers, six_months_ago, acc) ==
    IF i > Len(acc.videos) THEN acc
    ELSE
        LET video == acc.videos[i]
            stage == StageOf(video, channel_subscribers, six_months_ago)
            hit == [video EXCEPT !.subscriber_count =
                                     DictGet(channel_subscribers, video.channel_id)]
        IN IF stage = "raise" THEN [acc EXCEPT !.raised = TRUE]
           ELSE FilterLoopIT(i + 1, channel_subscribers, six_months_ago,
                    IF stage = "no_subscribers" \/ stage = "old" THEN acc
                    ELSE IF stage = "big" THEN
                        [acc EXCEPT !.stats = Bump(@, "recent")]
                    ELSE IF stage = "few_views" THEN
                        [acc EXCEPT !.stats = Bump(Bump(@, "recent"), "small_channel")]
                    ELSE
                        [acc EXCEPT !.stats = Bump(Bump(Bump(@, "recent"), "small_channel"), "buzz"),
                                    !.videos[i] = hit,
                                    !.filtered = Append(@, hit)])

\* the channel ids filter_videos asks for: the non-empty ones, as a set
ChannelIdsOfIT(vs) == {vs[i].channel_id : i \in DOMAIN vs} \ {""}

\* filter_videos(videos), given the dict get_channel_subscribers returned
filter_videos_it(vs, channel_subscribers) ==
    FilterLoopIT(1, channel_subscribers, Now - WindowDays,
                 [raised |-> FALSE, filtered |-> <<>>, videos |-> vs,
                  stats |-> [NoStats EXCEPT !.total = Len(vs)]])

----------------------------------------------------------------------------
(* export_to_csv *)

CsvHeader == <<"title_ja", "url", "channel_ja", "views_ja", "subscribers_ja">>
WatchUrl == "https://www.youtube.com/watch?v="
NoFile == [state |-> "absent", header |-> <<>>, rows |-> <<>>]

CsvRowIT(video) ==
    [title |-> video.title, url |-> WatchUrl \o video.video_id,
     channel_name |-> video.channel_name, view_count |-> video.view_count,
     subscriber_count |-> video.subscriber_count]

\* variant: the rows are written last record first
export_to_csv_it_Reversed(vs) ==
    [state |-> "closed", header |-> CsvHeader,
     rows |-> [i \in DOMAIN vs |-> CsvRowIT(vs[Len(vs) + 1 - i])]]

export_to_csv_it(vs) ==
    [state |-> "closed", header |-> CsvHeader,
     rows |-> [i \in DOMAIN vs |-> CsvRowIT(vs[i])]]

----------------------------------------------------------------------------
(* search_innertube.py: main *)

AllChannelIds == ChannelIds \cup {""}
NoQueries == [c \in AllChannelIds |-> 0]
NoArgs == [max_results |-> 0, min_views |-> 0, max_subscribers |-> 0]

\* queries after the lookups `looked`
Count(seq, x) == Cardinality({i \in DOMAIN seq : seq[i] = x})
Logged(q, looked) == [c \in DOMAIN q |-> q[c] + Count(looked, c)]

\* main ends: a return ("0"), sys.exit(1) ("1") or an uncaught KeyboardInterrupt
\* ("sigint"); `said` is what the step reported
Finish(status, said) ==
    pc' = "done" /\ exit_status' = status /\ log' = log \cup said

\* main goes on with its next statement
Goto(label, said) ==
    pc' = label /\ UNCHANGED exit_status /\ log' = log \cup said

\* variant: main goes on with an empty result
ReturnIfEmpty_Never(result, label, said) == Goto(label, said)

\* if not <result>: print a warning; return
ReturnIfEmpty(result, label, said) ==
    IF result = <<>> THEN Finish("0", said) ELSE Goto(label, said)

InitIT ==
    /\ prog = "innertube"
    /\ pc = "trending"
    /\ args = NoArgs

\* fetch_trending_videos: browse, parse; any exception gives []
FetchTrending ==
    /\ prog = "innertube" /\ pc = "trending"
    /\ \/ trending_ids' = <<>>
       \/ \E data \in BrowseResponses : trending_ids' \in parse_video_ids(data)
    /\ Goto("home", {})
    /\ UNCHANGED <<input, output, prog, args, next_page_token, home_ids, all_video_ids, videos,
                   channel_cache, filtered, stats, csv, queries, requests, calls>>

\* fetch_home_feed_videos
FetchHome ==
    /\ prog = "innertube" /\ pc = "home"
    /\ \/ home_ids' = <<>>
       \/ \E data \in BrowseResponses : home_ids' \in parse_video_ids(data)
    /\ Goto("collect", {})
    /\ UNCHANGED <<input, output, prog, args, next_page_token, trending_ids, all_video_ids, videos,
                   channel_cache, filtered, stats, csv, queries, requests, calls>>

\* all_video_ids = list(set(trending_ids + home_ids)); return when empty
CollectIds ==
    /\ prog = "innertube" /\ pc = "collect"
    /\ all_video_ids' \in Orders(Range(trending_ids \o home_ids))
    /\ ReturnIfEmpty(all_video_ids', "details", {})
    /\ UNCHANGED <<input, output, prog, args, next_page_token, trending_ids, home_ids, videos,
                   channel_cache, filtered, stats, csv, queries, requests, calls>>

\* videos = searcher.get_video_details(all_video_ids); return when empty
GetVideoDetails ==
    /\ prog = "innertube" /\ pc = "details"
    /\ \E src \in [DOMAIN all_video_ids -> PlayerResponses] :
       \E got \in {get_video_details(all_video_ids, src, 1, NoDetails)} :
          /\ videos' = got.videos
          /\ ReturnIfEmpty(got.videos, "filter", got.warned)
    /\ UNCHANGED <<input, output, prog, args, next_page_token, trending_ids, home_ids, all_video_ids,
                   channel_cache, filtered, stats, csv, queries, requests, calls>>

\* filtered_videos = searcher.filter_videos(videos); return when empty;
\* a TypeError raised by the loop reaches main's except Exception: sys.exit(1)
FilterVideosIT ==
    /\ prog = "innertube" /\ pc = "filter"
    /\ \E channel_ids \in Orders(ChannelIdsOfIT(videos)) :
       \E src \in [DOMAIN Uncached(channel_cache, channel_ids) -> ChannelResponses] :
       \E got \in {get_channel_subscribers_it(channel_cache, channel_ids, src)} :
       \E res \in {filter_videos_it(videos, got.ret)} :
          /\ channel_cache' = got.cache
          /\ queries' = Logged(queries, got.looked)
          /\ videos' = res.videos
          /\ IF res.raised
             THEN Finish("1", got.warned \cup {"error"}) /\ UNCHANGED <<filtered, stats>>
             ELSE /\ filtered' = res.filtered
                  /\ stats' = res.stats
                  /\ ReturnIfEmpty(res.filtered, "export", got.warned)
    /\ UNCHANGED <<input, output, prog, args, next_page_token, trending_ids, home_ids, all_video_ids,
                   csv, requests, calls>>

\* searcher.export_to_csv(filtered_videos, filename), then main returns
ExportIT ==
    /\ prog = "innertube" /\ pc = "export"
    /\ csv' = export_to_csv_it(filtered)
    /\ Finish("0", {})
    /\ UNCHANGED <<input, output, prog, args, next_page_token, trending_ids, home_ids, all_video_ids,
                   videos, channel_cache, filtered, stats, queries, requests, calls>>

\* KeyboardInterrupt while collecting, fetching or filtering: sys.exit(1)
InterruptIT ==
    /\ prog = "innertube" /\ pc \in {"trending", "home", "collect", "details", "filter"}
    /\ Finish("1", {"interrupted"})
    /\ UNCHANGED <<input, output, prog, args, next_page_token, trending_ids, home_ids, all_video_ids,
                   videos, channel_cache, filtered, stats, csv, queries, requests, calls>>

\* KeyboardInterrupt inside export_to_csv: the with block closes the file after
\* the header and some of the rows
InterruptExportIT ==
    /\ prog = "innertube" /\ pc = "export"
    /\ \E n \in 0..Len(filtered) :
          csv' = [state |-> "partial", header |-> CsvHeader,
                  rows |-> SubSeq(export_to_csv_it(filtered).rows, 1, n)]
    /\ Finish("1", {"interrupted"})
    /\ UNCHANGED <<input, output, prog, args, next_page_token, trending_ids, home_ids, all_video_ids,
                   videos, channel_cache, filtered, stats, queries, requests, calls>>

NextIT ==
    \/ FetchTrending \/ FetchHome \/ CollectIds \/ GetVideoDetails
    \/ FilterVideosIT \/ ExportIT \/ InterruptIT \/ InterruptExportIT

----------------------------------------------------------------------------
(* YouTubeSearcher._execute_with_retry *)

MaxRetries == 3            \* max_retries: int = 3

\* variant: a quota error is retried like a server error
IsServerError_WithQuota(status) == status \in {403, 500, 503}

IsServerError(status) == status \in {500, 503}

\* attempts[k] is the HTTP status of the k-th request.execute(); 200 returns
\* the response, anything else raises HttpError with that status
RECURSIVE RetryLoop(_, _, _)
RetryLoop(attempts, attempt, waits) ==
    IF attempt >= MaxRetries
    THEN [result |-> "none", status |-> 0, executions |-> attempt, waits |-> waits]
    ELSE LET status == attempts[attempt + 1]
         IN IF status = 200
            THEN [result |-> "ok", status |-> 200, executions |-> attempt + 1, waits |-> waits]
            ELSE IF IsServerError(status) /\ attempt < MaxRetries - 1
            THEN RetryLoop(attempts, attempt + 1, Append(waits, 2 ^ attempt))
            ELSE [result |-> "raise", status |-> status, executions |-> attempt + 1,
                  waits |-> waits]

\* variant: no retry, the first execution decides
execute_with_retry_Once(attempts) ==
    IF attempts[1] = 200
    THEN [result |-> "ok", status |-> 200, executions |-> 1, waits |-> <<>>]
    ELSE [result |-> "raise", status |-> attempts[1], executions |-> 1, waits |-> <<>>]

execute_with_retry(attempts) == RetryLoop(attempts, 0, <<>>)

\* how the successive executions of one request of a run may go: success, a
\* server error at every execution, a quota error
RequestOutcomes ==
    {<<200, 200, 200>>, <<500, 503, 500>>, <<403, 200, 200>>}
Succeeding == {a \in RequestOutcomes : execute_with_retry(a).result = "ok"}
Failing == {a \in RequestOutcomes : execute_with_retry(a).result = "raise"}

----------------------------------------------------------------------------
(* YouTubeSearcher: batched statistics lookups *)

Min(a, b) == IF a < b THEN a ELSE b

\* variant: all ids in one request
Chunks_Whole(ids) == IF ids = <<>> THEN <<>> ELSE <<ids>>

\* for i in range(0, len(ids), 50): batch = ids[i:i+50]
Chunks(ids) ==
    [k \in 1..((Len(ids) + BatchSize - 1) \div BatchSize) |->
        SubSeq(ids, BatchSize * (k - 1) + 1, Min(BatchSize * k, Len(ids)))]

\* the statuses of the executions _execute_with_retry made of one request
Tried(attempts) == SubSeq(attempts, 1, execute_with_retry(attempts).executions)

\* one call of _execute_with_retry as the API saw it: the request, the status
\* of each of its executions and the status the call ended with
Req(api, ids, attempts) ==
    [api |-> api, ids |-> ids, max |-> 0, token |-> "",
     status |-> execute_with_retry(attempts).status, tried |-> Tried(attempts)]

\* get_video_statistics(video_ids): reqs[k] is how the k-th request goes,
\* answers[id] what the API holds for a video
RECURSIVE StatisticsLoop(_, _, _, _, _)
StatisticsLoop(chunks, k, reqs, answers, acc) ==
    IF k > Len(chunks) THEN acc
    ELSE LET response == execute_with_retry(reqs[k])
             sent == [acc EXCEPT !.log = Append(@, Req("videos", chunks[k], reqs[k]))]
             batch == Range(chunks[k])
         IN IF response.result # "ok"
            THEN [sent EXCEPT !.raised = TRUE, !.status = response.status]
            ELSE StatisticsLoop(chunks, k + 1, reqs, answers,
                     [sent EXCEPT !.statistics =
                         [id \in DOMAIN @ \cup {v \in batch : answers[v].k # "missing"} |->
                             IF id \in batch /\ answers[id].k # "missing"
                             THEN IntOf(answers[id]) ELSE @[id]]])

get_video_statistics(video_ids, reqs, answers) ==
    StatisticsLoop(Chunks(video_ids), 1, reqs, answers,
                   [raised |-> FALSE, status |-> 200, statistics |-> EmptyDict, log |-> <<>>])

\* the cache after the items of one channels().list response
CacheItems(cache, batch, answers) ==
    [cid \in DOMAIN cache \cup {c \in batch : answers[c].k # "missing"} |->
        IF cid \in batch /\ answers[cid].k # "missing"
        THEN IF answers[cid].k = "hidden" THEN NoneVal ELSE IntOf(answers[cid])
        ELSE cache[cid]]

RECURSIVE LookupLoopYT(_, _, _, _, _)
LookupLoopYT(chunks, k, reqs, answers, acc) ==
    IF k > Len(chunks) THEN acc
    ELSE LET response == execute_with_retry(reqs[k])
             sent == [acc EXCEPT !.log = Append(@, Req("channels", chunks[k], reqs[k])),
                                 !.looked = @ \o chunks[k]]
         IN IF response.result # "ok"
            THEN [sent EXCEPT !.raised = TRUE, !.status = response.status]
            ELSE LookupLoopYT(chunks, k + 1, reqs, answers,
                     [sent EXCEPT !.cache = CacheItems(@, Range(chunks[k]), answers)])

\* get_channel_subscribers(channel_ids) of YouTubeSearcher
get_channel_subscribers_yt(cache, channel_ids, reqs, answers) ==
    LET uncached_ids == Uncached(cache, channel_ids)
        done == LookupLoopYT(Chunks(uncached_ids), 1, reqs, answers,
                    [raised |-> FALSE, status |-> 200, cache |-> cache,
                     looked |-> <<>>, log |-> <<>>])
    IN [cache |-> done.cache, looked |-> done.looked, raised |-> done.raised,
        status |-> done.status, log |-> done.log,
        ret |-> [cid \in Range(channel_ids) |-> DictGet(done.cache, cid)]]

NumChunks(ids) == Len(Chunks(ids))

\* what the API may hold for a video / a channel
ViewAnswers == {Fld("missing", 0), Fld("absent", 0), Fld("num", 9999), Fld("num", 10000)}
SubscriberAnswers ==
    {Fld("missing", 0), Fld("hidden", 0), Fld("absent", 0), Fld("num", 5000), Fld("num", 5001)}

----------------------------------------------------------------------------
(* YouTubeSearcher.filter_videos and export_to_csv *)

DefaultMinViews == 10000        \* --min-views default
DefaultMaxSubscribers == 5000   \* --max-subscribers default

\* view_count >= min_views
EnoughViews(view_count, min_views) == view_count >= min_views

\* subscriber_count <= max_subscribers
SmallEnoughYT(subscriber_count, max_subscribers) == subscriber_count <= max_subscribers

RECURSIVE FilterLoopYT(_, _, _, _, _, _)
FilterLoopYT(vs, i, video_stats, channel_subscribers, a, out) ==
    IF i > Len(vs) THEN out
    ELSE LET video == vs[i]
             view_count == IF video.video_id \in DOMAIN video_stats
                           THEN video_stats[video.video_id] ELSE 0
             subscriber_count == DictGet(channel_subscribers, video.channel_id)
         IN FilterLoopYT(vs, i + 1, video_stats, channel_subscribers, a,
                IF subscriber_count = NoneVal THEN out
                ELSE IF EnoughViews(view_count, a.min_views)
                        /\ SmallEnoughYT(subscriber_count, a.max_subscribers)
                THEN Append(out, [video EXCEPT !.view_count = view_count,
                                               !.subscriber_count = subscriber_count])
                ELSE out)

filter_videos_yt(vs, video_stats, channel_subscribers, a) ==
    FilterLoopYT(vs, 1, video_stats, channel_subscribers, a, <<>>)

VideoIdsOf(vs) == [i \in DOMAIN vs |-> vs[i].video_id]
ChannelIdsOfYT(vs) == {vs[i].channel_id : i \in DOMAIN vs}

CsvRowYT(video) ==
    [title |-> video.title, url |-> WatchUrl \o video.video_id,
     channel_name |-> video.channel_title, view_count |-> video.view_count,
     subscriber_count |-> video.subscriber_count]

export_to_csv_yt(vs) ==
    [state |-> "closed", header |-> CsvHeader,
     rows |-> [i \in DOMAIN vs |-> CsvRowYT(vs[i])]]

----------------------------------------------------------------------------
(* search_youtube.py: search_videos and main *)

SearchItem(videoId, channelId) == [videoId |-> videoId, channelId |-> channelId]
\* an item without id.videoId: item['id']['videoId'] raises KeyError
BadItem == SearchItem("", "")
SearchItems ==
    {SearchItem("aaaaaaaaaaa", "UC1"), SearchItem("bbbbbbbbbbb", "UC2"),
     SearchItem("ccccccccccc", "UC1")}

\* the pages search().list may answer to a request for n items (the items of
\* one page are distinct; two pages may hold the same item)
SearchPages(n) ==
    {[items |-> items, next |-> nx] : items \in DistinctSeqsUpTo(SearchItems, n), nx \in BOOLEAN}
    \cup {[items |-> <<BadItem>>, next |-> FALSE]}

SearchResult(item) ==
    [video_id |-> item.videoId, title |-> "title", channel_id |-> item.channelId,
     channel_title |-> "channel", view_count |-> NoneVal, subscriber_count |-> NoneVal]

SearchRequests == Cardinality({i \in DOMAIN requests : requests[i].api = "search"})

InitYT ==
    /\ prog = "youtube"
    /\ pc = "search"
    /\ args \in {[max_results |-> m, min_views |-> DefaultMinViews,
                  max_subscribers |-> DefaultMaxSubscribers] : m \in 1..MaxResultsArg}

\* one iteration of the while loop of search_videos; videos holds `results`.
\* When the loop ends, search_videos returns and main tests `if not videos`
SearchPage ==
    /\ prog = "youtube" /\ pc = "search"
    /\ Len(videos) < args.max_results
    /\ LET wanted == Min(BatchSize, args.max_results - Len(videos)) IN
       \E attempts \in RequestOutcomes :
       \E response \in {execute_with_retry(attempts)} :
          /\ requests' = Append(requests,
                 [api |-> "search", ids |-> <<>>, max |-> wanted,
                  token |-> next_page_token, status |-> response.status,
                  tried |-> Tried(attempts)])
          /\ IF response.result # "ok"
             THEN \* 403: sys.exit(1); other statuses: main's except HttpError
                  Finish("1", {"error"}) /\ UNCHANGED <<videos, next_page_token>>
             ELSE \E page \in SearchPages(wanted) :
                  /\ page.next => SearchRequests < MaxPages - 1
                  /\ IF BadItem \in Range(page.items)
                     THEN Finish("1", {"error"}) /\ UNCHANGED <<videos, next_page_token>>
                     ELSE /\ videos' = videos \o [i \in DOMAIN page.items |->
                                                     SearchResult(page.items[i])]
                          /\ next_page_token' = IF page.next THEN "token" ELSE ""
                          /\ IF page.next /\ Len(videos') < args.max_results
                             THEN Goto("search", {})
                             ELSE ReturnIfEmpty(videos', "filter", {})
    /\ UNCHANGED <<input, output, prog, args, trending_ids, home_ids, all_video_ids, channel_cache,
                   filtered, stats, csv, queries, calls>>

AnyOk(reqs) == \E k \in DOMAIN reqs : reqs[k] \in Succeeding

\* the dicts of `vs` after filter_videos stored view_count and subscriber_count
\* into those it kept
Marked(vs, kept) ==
    [i \in DOMAIN vs |->
        IF \E j \in DOMAIN kept : /\ kept[j].video_id = vs[i].video_id
                                  /\ kept[j].channel_id = vs[i].channel_id
        THEN kept[CHOOSE j \in DOMAIN kept : /\ kept[j].video_id = vs[i].video_id
                                             /\ kept[j].channel_id = vs[i].channel_id]
        ELSE vs[i]]

\* filtered_videos = searcher.filter_videos(videos, min_views, max_subscribers);
\* an HttpError of either lookup reaches main's except HttpError: sys.exit(1)
FilterVideosYT ==
    /\ prog = "youtube" /\ pc = "filter"
    /\ LET video_ids == VideoIdsOf(videos) IN
       \E reqs1 \in [1..NumChunks(video_ids) -> RequestOutcomes] :
       \E views \in IF AnyOk(reqs1) THEN [Range(video_ids) -> ViewAnswers]
                    ELSE {[v \in Range(video_ids) |-> Fld("missing", 0)]} :
       \E st \in {get_video_statistics(video_ids, reqs1, views)} :
          IF st.raised
          THEN /\ requests' = requests \o st.log
               /\ Finish("1", {"error"})
               /\ UNCHANGED <<videos, channel_cache, filtered, queries>>
          ELSE
            \E channel_ids \in Orders(ChannelIdsOfYT(videos)) :
            \E reqs2 \in [1..NumChunks(Uncached(channel_cache, channel_ids)) -> RequestOutcomes] :
            \E subs \in IF AnyOk(reqs2) THEN [Range(channel_ids) -> SubscriberAnswers]
                        ELSE {[c \in Range(channel_ids) |-> Fld("missing", 0)]} :
            \E got \in {get_channel_subscribers_yt(channel_cache, channel_ids, reqs2, subs)} :
               /\ requests' = requests \o st.log \o got.log
               /\ channel_cache' = got.cache
               /\ queries' = Logged(queries, got.looked)
               /\ IF got.raised
                  THEN Finish("1", {"error"}) /\ UNCHANGED <<videos, filtered>>
                  ELSE /\ filtered' = filter_videos_yt(videos, st.statistics, got.ret, args)
                       /\ videos' = Marked(videos, filtered')
                       /\ ReturnIfEmpty(filtered', "export", {})
    /\ UNCHANGED <<input, output, prog, args, next_page_token, trending_ids, home_ids, all_video_ids,
                   stats, csv, calls>>

\* filename = searcher.export_to_csv(filtered_videos, args.keyword), then main returns
ExportYT ==
    /\ prog = "youtube" /\ pc = "export"
    /\ csv' = export_to_csv_yt(filtered)
    /\ Finish("0", {})
    /\ UNCHANGED <<input, output, prog, args, next_page_token, trending_ids, home_ids, all_video_ids, videos,
                   channel_cache, filtered, stats, queries, requests, calls>>

\* KeyboardInterrupt while searching or filtering: main catches only Exception,
\* the interpreter ends the process with a non-zero status
InterruptYT ==
    /\ prog = "youtube" /\ pc \in {"search", "filter"}
    /\ Finish("sigint", {"interrupted"})
    /\ UNCHANGED <<input, output, prog, args, next_page_token, trending_ids, home_ids, all_video_ids, videos,
                   channel_cache, filtered, stats, csv, queries, requests, calls>>

\* KeyboardInterrupt inside export_to_csv
InterruptExportYT ==
    /\ prog = "youtube" /\ pc = "export"
    /\ \E n \in 0..Len(filtered) :
          csv' = [state |-> "partial", header |-> CsvHeader,
                  rows |-> SubSeq(export_to_csv_yt(filtered).rows, 1, n)]
    /\ Finish("sigint", {"interrupted"})
    /\ UNCHANGED <<input, output, prog, args, next_page_token, trending_ids, home_ids, all_video_ids, videos,
                   channel_cache, filtered, stats, queries, requests, calls>>

NextYT ==
    \/ SearchPage \/ FilterVideosYT \/ ExportYT \/ InterruptYT \/ InterruptExportYT

----------------------------------------------------------------------------
(* One run of either script *)

Init ==
    /\ InitIT \/ InitYT
    /\ trending_ids = <<>> /\ home_ids = <<>> /\ all_video_ids = <<>>
    /\ next_page_token = ""
    /\ videos = <<>> /\ channel_cache = EmptyDict /\ filtered = <<>>
    /\ stats = NoStats /\ csv = NoFile /\ exit_status = "running"
    /\ queries = NoQueries /\ requests = <<>> /\ calls = <<>> /\ log = {}
    /\ input = <<>> /\ output = <<>>

Next == NextIT \/ NextYT

Spec == Init /\ [][Next]_vars

----------------------------------------------------------------------------
(* Calls of get_channel_subscribers on one searcher instance *)

Call(channel_ids, got) ==
    [ids |-> channel_ids, looked |-> got.looked, raised |-> got.raised,
     ret |-> IF got.raised THEN EmptyDict ELSE got.ret]

InitCache ==
    /\ prog \in {"innertube", "youtube"}
    /\ pc = "api"
    /\ args = NoArgs
    /\ trending_ids = <<>> /\ home_ids = <<>> /\ all_video_ids = <<>>
    /\ next_page_token = ""
    /\ videos = <<>> /\ channel_cache = EmptyDict /\ filtered = <<>>
    /\ stats = NoStats /\ csv = NoFile /\ exit_status = "running"
    /\ queries = NoQueries /\ requests = <<>> /\ calls = <<>> /\ log = {}
    /\ input = <<>> /\ output = <<>>

\* searcher.get_channel_subscribers(channel_ids) on an InnerTubeSearcher; as in
\* filter_videos, channel_ids comes from list(set(...)) and has no duplicates
CallIT ==
    /\ prog = "innertube" /\ pc = "api" /\ Len(calls) < MaxCalls
    /\ \E channel_ids \in DistinctSeqsUpTo(ChannelIds, MaxListLen) :
       \E src \in [DOMAIN Uncached(channel_cache, channel_ids) -> ChannelResponses] :
       \E got \in {get_channel_subscribers_it(channel_cache, channel_ids, src)} :
          /\ channel_cache' = got.cache
          /\ queries' = Logged(queries, got.looked)
          /\ calls' = Append(calls, Call(channel_ids, got))
          /\ log' = log \cup got.warned
    /\ UNCHANGED <<input, output, prog, pc, args, next_page_token, trending_ids, home_ids, all_video_ids,
                   videos, filtered, stats, csv, exit_status, requests>>

\* searcher.get_channel_subscribers(channel_ids) on a YouTubeSearcher; the
\* caller may catch the HttpError of a failed request and call again
CallYT ==
    /\ prog = "youtube" /\ pc = "api" /\ Len(calls) < MaxCalls
    /\ \E channel_ids \in DistinctSeqsUpTo(ChannelIds, MaxListLen) :
       \E reqs \in [1..NumChunks(Uncached(channel_cache, channel_ids)) -> RequestOutcomes] :
       \E subs \in IF AnyOk(reqs) THEN [Range(channel_ids) -> SubscriberAnswers]
                   ELSE {[c \in Range(channel_ids) |-> Fld("missing", 0)]} :
       \E got \in {get_channel_subscribers_yt(channel_cache, channel_ids, reqs, subs)} :
          /\ channel_cache' = got.cache
          /\ queries' = Logged(queries, got.looked)
          /\ requests' = requests \o got.log
          /\ calls' = Append(calls, Call(channel_ids, got))
    /\ UNCHANGED <<input, output, prog, pc, args, next_page_token, trending_ids, home_ids, all_video_ids,
                   videos, filtered, stats, csv, exit_status, log>>

NextCache == CallIT \/ CallYT

SpecCache == InitCache /\ [][NextCache]_vars

----------------------------------------------------------------------------
(* Single calls of one method *)

\* the variables of a run, untouched by a single call
run == <<args, trending_ids, home_ids, all_video_ids, next_page_token, videos,
         channel_cache, filtered, stats, csv, exit_status, queries, requests, calls, log>>

NoRun ==
    /\ args = NoArgs
    /\ trending_ids = <<>> /\ home_ids = <<>> /\ all_video_ids = <<>>
    /\ next_page_token = ""
    /\ videos = <<>> /\ channel_cache = EmptyDict /\ filtered = <<>>
    /\ stats = NoStats /\ csv = NoFile /\ exit_status = "running"
    /\ queries = NoQueries /\ requests = <<>> /\ calls = <<>> /\ log = {}

(* searcher._parse_subscriber_count(text) *)

TextChars == {"1", "2", "4", "5", ".", ",", " ", "K", "M", "<man>", "x"}

\* the texts tried: a few characters, alone or followed by the wording of a
\* subscriber count
Texts ==
    {core \o wording :
        core \in {t \in SeqsUpTo(TextChars, MaxTextLen) :
                     Cardinality({i \in DOMAIN t : IsDigit(t[i])}) <= MaxDigits},
        wording \in {<<>>, TxtSubscribers, TxtTouroku}}

InitParse ==
    /\ prog = "parse" /\ pc = "call"
    /\ input \in Texts /\ output = <<>>
    /\ NoRun

ParseCall ==
    /\ prog = "parse" /\ pc = "call"
    /\ output' = [ret |-> parse_subscriber_count(input)]
    /\ pc' = "done"
    /\ UNCHANGED <<prog, input, run>>

SpecParse == InitParse /\ [][ParseCall]_vars

(* searcher._execute_with_retry(request) *)

\* what one request.execute() may answer: the response, or an HttpError with
\* one of these statuses
Statuses == {200, 400, 403, 404, 500, 503}

\* input[k] is the status of the k-th execution, should it take place
InitRetry ==
    /\ prog = "retry" /\ pc = "call"
    /\ input \in [1..MaxRetries -> Statuses] /\ output = <<>>
    /\ NoRun

RetryCall ==
    /\ prog = "retry" /\ pc = "call"
    /\ output' = execute_with_retry(input)
    /\ pc' = "done"
    /\ UNCHANGED <<prog, input, run>>

SpecRetry == InitRetry /\ [][RetryCall]_vars

(* searcher.search_videos(keyword, max_results) *)

MaxSearch == 101

\* the values of max_results tried
SearchSizes == {0, 1, BatchSize - 1, BatchSize, BatchSize + 1, MaxSearch}

\* continuation tokens; the token of a page differs from the token that asked
\* for it
PageTokens == {"t1", "t2"}

FoundItem == SearchItem("aaaaaaaaaaa", "UC1")

\* the numbers of items search().list may answer to a request for n items; an
\* answer of n + 1 items is one the API documentation rules out
PageSizes(n) == {0, 1, n, n + 1}

NoRequest == [max |-> 0, token |-> ""]

\* output.request is the last search().list request built, output.honest
\* whether every page so far held at most the requested number of items,
\* output.result how the call ended
InitSearch ==
    /\ prog = "search" /\ pc = "loop"
    /\ input \in [max_results : SearchSizes]
    /\ output = [request |-> NoRequest, honest |-> TRUE, result |-> "running"]
    /\ NoRun

\* while len(results) < max_results: one iteration
SearchStep ==
    /\ prog = "search" /\ pc = "loop"
    /\ Len(videos) < input.max_results
    /\ LET wanted == Min(BatchSize, input.max_results - Len(videos))
           request == [max |-> wanted, token |-> next_page_token]
       IN \E attempts \in RequestOutcomes :
          \E response \in {execute_with_retry(attempts)} :
             IF response.result # "ok"
             THEN \* except HttpError: sys.exit(1) on 403, raise otherwise
                  /\ output' = [output EXCEPT !.request = request,
                                   !.result = IF response.status = 403 THEN "exit" ELSE "raise"]
                  /\ pc' = "done"
                  /\ UNCHANGED <<videos, next_page_token>>
             ELSE \E n \in PageSizes(wanted) :
                  \E token \in {""} \cup (PageTokens \ {next_page_token}) :
                  \E bad \in BOOLEAN :
                     IF bad /\ n > 0
                     THEN \* item['id']['videoId'] raises KeyError
                          /\ output' = [output EXCEPT !.request = request, !.result = "raise"]
                          /\ pc' = "done"
                          /\ UNCHANGED <<videos, next_page_token>>
                     ELSE /\ videos' = videos \o [i \in 1..n |-> SearchResult(FoundItem)]
                          /\ next_page_token' = token
                          /\ output' = [output EXCEPT !.request = request,
                                           !.honest = @ /\ n <= wanted,
                                           \* if not next_page_token: break
                                           !.result = IF token = "" THEN "return" ELSE @]
                          /\ pc' = IF token = "" THEN "done" ELSE "loop"
    /\ UNCHANGED <<prog, input, args, trending_ids, home_ids, all_video_ids, channel_cache,
                   filtered, stats, csv, exit_status, queries, requests, calls, log>>

\* the while condition is false: return results
SearchReturn ==
    /\ prog = "search" /\ pc = "loop"
    /\ Len(videos) >= input.max_results
    /\ output' = [output EXCEPT !.result = "return"]
    /\ pc' = "done"
    /\ UNCHANGED <<prog, input, run>>

NextSearch == SearchStep \/ SearchReturn

\* the interpreter keeps executing the loop while it has not ended
SpecSearch == InitSearch /\ [][NextSearch]_vars /\ WF_vars(NextSearch)

(* searcher.get_video_statistics(video_ids) and
   searcher.get_channel_subscribers(channel_ids) on long lists *)

MaxIds == 101

\* the list of n distinct ids; the i-th id is written i
IdList(n) == [i \in 1..n |-> i]

\* what the API holds for the ids: a count for each, or nothing for the even
\* ones, no viewCount / subscriberCount field for every third
BatchAnswers(ids) ==
    {[id \in Range(ids) |-> Fld("num", 9999)],
     [id \in Range(ids) |-> IF id % 2 = 0 THEN Fld("missing", 0)
                            ELSE IF id % 3 = 0 THEN Fld("absent", 0)
                            ELSE Fld("num", id)]}

\* channel_cache before the call: empty, or every fifth id cached
CachesBefore(ids) ==
    {EmptyDict, [c \in {id \in Range(ids) : id % 5 = 0} |-> 1000]}

InitBatch ==
    /\ prog = "batch" /\ pc = "call"
    /\ input \in [api : {"videos", "channels"}, ids : {IdList(n) : n \in 0..MaxIds}]
    /\ output = <<>>
    /\ channel_cache \in IF input.api = "channels" THEN CachesBefore(input.ids)
                         ELSE {EmptyDict}
    /\ args = NoArgs
    /\ trending_ids = <<>> /\ home_ids = <<>> /\ all_video_ids = <<>>
    /\ next_page_token = ""
    /\ videos = <<>> /\ filtered = <<>>
    /\ stats = NoStats /\ csv = NoFile /\ exit_status = "running"
    /\ queries = NoQueries /\ requests = <<>> /\ calls = <<>> /\ log = {}

\* statistics = searcher.get_video_statistics(video_ids); output.before is the
\* cache the call found, output.answers what the API held
VideoStatisticsCall ==
    /\ prog = "batch" /\ pc = "call" /\ input.api = "videos"
    /\ \E reqs \in [1..NumChunks(input.ids) -> RequestOutcomes] :
       \E answers \in BatchAnswers(input.ids) :
       \E got \in {get_video_statistics(input.ids, reqs, answers)} :
          /\ requests' = got.log
          /\ output' = [raised |-> got.raised, before |-> channel_cache, answers |-> answers,
                        ret |-> IF got.raised THEN EmptyDict ELSE got.statistics]
    /\ pc' = "done"
    /\ UNCHANGED <<prog, input, args, trending_ids, home_ids, all_video_ids, next_page_token,
                   videos, channel_cache, filtered, stats, csv, exit_status, queries, calls,
                   log>>

\* subscribers = searcher.get_channel_subscribers(channel_ids)
ChannelSubscribersCall ==
    /\ prog = "batch" /\ pc = "call" /\ input.api = "channels"
    /\ \E reqs \in [1..NumChunks(Uncached(channel_cache, input.ids)) -> RequestOutcomes] :
       \E answers \in BatchAnswers(input.ids) :
       \E got \in {get_channel_subscribers_yt(channel_cache, input.ids, reqs, answers)} :
          /\ requests' = got.log
          /\ channel_cache' = got.cache
          /\ output' = [raised |-> got.raised, before |-> channel_cache, answers |-> answers,
                        ret |-> IF got.raised THEN EmptyDict ELSE got.ret]
    /\ pc' = "done"
    /\ UNCHANGED <<prog, input, args, trending_ids, home_ids, all_video_ids, next_page_token,
                   videos, filtered, stats, csv, exit_status, queries, calls, log>>

NextBatch == VideoStatisticsCall \/ ChannelSubscribersCall

SpecBatch == InitBatch /\ [][NextBatch]_vars

----------------------------------------------------------------------------
(* Properties *)

\* filter_videos of InnerTubeSearcher has returned normally in this run
FilterDoneIT == prog = "innertube" /\ stats.total > 0

\* the subscriber count filter_videos resolved for a record of `videos`
Resolved(video) == DictGet(channel_cache, video.channel_id)

InFiltered(video) == \E j \in DOMAIN filtered : filtered[j].video_id = video.video_id

KnownRecent(video) ==
    /\ Resolved(video) # NoneVal
    /\ video.publish_date.kind = "aware"
    /\ video.publish_date.t >= Cutoff

\* C1: over any sequence of get_channel_subscribers calls on one searcher, of
\* either variant, every channel id is looked up at most once, and a later call
\* with an id an earlier call asked for issues no lookup for it and returns the
\* value the earlier call returned, None included.
C1_QueriedAtMostOnce ==
    /\ \A c \in ChannelIds : queries[c] <= 1
    /\ \A i \in DOMAIN calls : \A j \in DOMAIN calls :
          (i < j /\ ~calls[i].raised /\ ~calls[j].raised) =>
              \A c \in Range(calls[i].ids) \cap Range(calls[j].ids) :
                  /\ c \notin Range(calls[j].looked)
                  /\ calls[j].ret[c] = calls[i].ret[c]

\* C2 as stated: in both filters only records strictly below the subscriber
\* ceiling are returned.
C2_StrictInBoth ==
    \A i \in DOMAIN filtered :
        filtered[i].subscriber_count <
            (IF prog = "innertube" THEN SubscriberCeiling ELSE args.max_subscribers)

\* C2: InnerTubeSearcher.filter_videos returns only records strictly below its
\* ceiling of 10000 subscribers; YouTubeSearcher.filter_videos returns only
\* records with at most max_subscribers subscribers, equality included.
C2_Ceilings ==
    /\ prog = "innertube" =>
          \A i \in DOMAIN filtered : filtered[i].subscriber_count < SubscriberCeiling
    /\ prog = "youtube" =>
          \A i \in DOMAIN filtered : filtered[i].subscriber_count <= args.max_subscribers
    /\ FilterDoneIT =>
          \A i \in DOMAIN videos :
              Resolved(videos[i]) = SubscriberCeiling => ~InFiltered(videos[i])

\* a record with exactly max_subscribers subscribers returned by the Data-API filter
C2_Witness ==
    /\ prog = "youtube"
    /\ \E i \in DOMAIN filtered : filtered[i].subscriber_count = args.max_subscribers

\* C3: every record InnerTubeSearcher.filter_videos returns, and every row
\* written from it, has a known publish timestamp not earlier than now - 180
\* days, a non-empty channel id and a known subscriber count equal to the cached
\* value of its channel.
C3_ExportSet ==
    prog = "innertube" =>
        /\ \A i \in DOMAIN filtered :
              LET v == filtered[i] IN
                 /\ v.publish_date.kind = "aware"
                 /\ v.publish_date.t >= Now - WindowDays
                 /\ v.channel_id # ""
                 /\ v.channel_id \in DOMAIN channel_cache
                 /\ v.subscriber_count # NoneVal
                 /\ v.subscriber_count = channel_cache[v.channel_id]
                 /\ \E k \in DOMAIN videos : videos[k] = v
        /\ Len(csv.rows) <= Len(filtered)
        /\ \A k \in DOMAIN csv.rows : csv.rows[k] = CsvRowIT(filtered[k])

\* a file written from a qualifying record while a record of a known channel
\* with an unknown timestamp was left out
C3_Witness ==
    /\ prog = "innertube" /\ csv.state = "closed" /\ Len(csv.rows) = 1
    /\ \E i \in DOMAIN videos :
          /\ videos[i].publish_date.kind = "none"
          /\ Resolved(videos[i]) # NoneVal
          /\ ~InFiltered(videos[i])

\* C4: a record that passed stages 1-3 is returned exactly when
\* view_count >= subscriber_count * 3; with 0 subscribers every positive
\* view_count passes.
C4_ViewRatio ==
    FilterDoneIT =>
        \A i \in DOMAIN videos :
            LET v == videos[i] IN
               (KnownRecent(v) /\ Resolved(v) < SubscriberCeiling) =>
                  /\ InFiltered(v) <=> v.view_count >= Resolved(v) * ViewMultiplier
                  /\ (Resolved(v) = 0 /\ v.view_count > 0) => InFiltered(v)

\* 3000 views at 1000 subscribers returned, 2999 views at 1000 subscribers not
C4_Witness ==
    /\ FilterDoneIT
    /\ \E i \in DOMAIN videos : \E j \in DOMAIN videos :
          /\ KnownRecent(videos[i]) /\ KnownRecent(videos[j])
          /\ Resolved(videos[i]) = 1000 /\ Resolved(videos[j]) = 1000
          /\ videos[i].view_count = 1000 * ViewMultiplier /\ InFiltered(videos[i])
          /\ videos[j].view_count = 1000 * ViewMultiplier - 1 /\ ~InFiltered(videos[j])

\* C5: the recency stage counts as recent exactly the records of a known channel
\* whose timestamp is known and not earlier than the cutoff: a timestamp equal to
\* the cutoff is accepted, one unit earlier is rejected.
C5_RecencyBoundary ==
    FilterDoneIT =>
        /\ stats.recent = Cardinality({i \in DOMAIN videos : KnownRecent(videos[i])})
        /\ \A i \in DOMAIN videos :
              LET v == videos[i] IN
                 /\ (/\ Resolved(v) # NoneVal /\ v.publish_date.kind = "aware"
                     /\ v.publish_date.t = Cutoff /\ Resolved(v) < SubscriberCeiling
                     /\ v.view_count >= Resolved(v) * ViewMultiplier) => InFiltered(v)
                 /\ (v.publish_date.kind = "none" \/ v.publish_date.t < Cutoff)
                       => ~InFiltered(v)

\* one record exactly at the cutoff, counted and returned, and one a unit earlier
C5_Witness ==
    /\ FilterDoneIT /\ stats.recent = 1
    /\ \E i \in DOMAIN videos : \E j \in DOMAIN videos :
          /\ Resolved(videos[i]) # NoneVal /\ Resolved(videos[j]) # NoneVal
          /\ videos[i].publish_date = [kind |-> "aware", t |-> Cutoff]
          /\ InFiltered(videos[i])
          /\ videos[j].publish_date = [kind |-> "aware", t |-> Cutoff - 1]
          /\ ~InFiltered(videos[j])

\* C6: total counts the input records, recent those of a known channel inside
\* the window, small_channel those of them below the ceiling, buzz those of them
\* with enough views, which is the length of the returned list; the counters
\* never increase along the stages; two records one day old of a channel with
\* 1000 subscribers, with 3000 and 100 views, give the first record and the
\* counters 2, 2, 2, 1.
C6_StageCounters ==
    FilterDoneIT =>
        LET Recent == {i \in DOMAIN videos : KnownRecent(videos[i])}
            Small == {i \in Recent : Resolved(videos[i]) < SubscriberCeiling}
            Buzz == {i \in Small :
                        videos[i].view_count >= Resolved(videos[i]) * ViewMultiplier}
        IN /\ stats.total = Len(videos)
           /\ stats.recent = Cardinality(Recent)
           /\ stats.small_channel = Cardinality(Small)
           /\ stats.buzz = Cardinality(Buzz)
           /\ stats.buzz = Len(filtered)
           /\ stats.total >= stats.recent
           /\ stats.recent >= stats.small_channel
           /\ stats.small_channel >= stats.buzz
           /\ (/\ Len(videos) = 2
               /\ videos[1].view_count = 3000 /\ videos[2].view_count = 100
               /\ \A i \in DOMAIN videos :
                     /\ Resolved(videos[i]) = 1000
                     /\ videos[i].publish_date = [kind |-> "aware", t |-> Now - 1])
              => /\ filtered = <<videos[1]>>
                 /\ stats = [total |-> 2, recent |-> 2, small_channel |-> 2, buzz |-> 1]

\* the two-record scenario after filter_videos returned
C6_Witness ==
    /\ FilterDoneIT /\ Len(videos) = 2
    /\ videos[1].view_count = 3000 /\ videos[2].view_count = 100
    /\ \A i \in DOMAIN videos :
          /\ Resolved(videos[i]) = 1000
          /\ videos[i].publish_date = [kind |-> "aware", t |-> Now - 1]
    /\ stats.buzz = 1

\* C7: the list handed to get_video_details holds each identifier once, only
\* strings of length 11, and exactly the identifiers of the trending and home
\* results; the results of search_videos hold each video id once across pages.
C7_CandidatesUnique ==
    /\ (prog = "innertube" /\ pc \notin {"trending", "home", "collect"}) =>
          /\ NoDuplicates(all_video_ids)
          /\ \A i \in DOMAIN all_video_ids : Len(all_video_ids[i]) = IdLength
          /\ Range(all_video_ids) = Range(trending_ids) \cup Range(home_ids)
    /\ prog = "youtube" => NoDuplicates(VideoIdsOf(videos))

\* C8: a step of get_video_details returns normally with one record for each id
\* it did not report as failed, in input order; a step of the channel lookup
\* looks up every channel of the list once, a failed lookup leaving None in the
\* cache.
C8_FailuresSkipped ==
    [][(prog = "innertube" /\ "interrupted" \notin log') =>
          /\ (pc = "details" /\ pc' # "details") =>
                /\ VideoIdsOf(videos') =
                      SelectSeq(all_video_ids, LAMBDA id : id \notin log')
                /\ Len(videos') <= Len(all_video_ids)
                /\ exit_status' # "1"
          /\ (pc = "filter" /\ pc' # "filter") =>
                \A c \in ChannelIdsOfIT(videos) :
                    /\ c \in DOMAIN channel_cache'
                    /\ queries'[c] = 1
                    /\ c \in log' => channel_cache'[c] = NoneVal]_vars

\* the first of two ids failed and the second gave a record, whose channel
\* lookup failed in turn and left None in the cache
C8_Witness ==
    /\ prog = "innertube" /\ Len(all_video_ids) = 2 /\ Len(videos) = 1
    /\ all_video_ids[1] \in log
    /\ videos[1].video_id = all_video_ids[2]
    /\ videos[1].channel_id \in log
    /\ videos[1].channel_id \in DOMAIN channel_cache
    /\ channel_cache[videos[1].channel_id] = NoneVal

\* C9: whatever the publishDate of a record, the InnerTube run never ends in the
\* error exit: filter_videos completes for the whole list.
C9_ParseFailureHarmless ==
    prog = "innertube" => "error" \notin log

\* C10: an output file exists only once filter_videos has returned a non-empty
\* list; a run that ends with an empty list has no file, and its status is 0
\* unless it was interrupted or failed.
C10_OutputAfterFilter ==
    /\ csv.state # "absent" => (pc = "done" /\ filtered # <<>>)
    /\ pc # "done" => csv = NoFile
    /\ (pc = "done" /\ filtered = <<>>) =>
          /\ csv = NoFile
          /\ log \cap {"interrupted", "error"} = {} => exit_status = "0"
    /\ log \cap {"interrupted", "error"} # {} => exit_status # "0"

\* a run that found records, kept none and ended with status 0 and no file
C10_Witness ==
    /\ pc = "done" /\ exit_status = "0"
    /\ videos # <<>> /\ filtered = <<>>
    /\ csv = NoFile

\* C11: in the Data-API run a request that met HTTP 403 was executed once, is
\* the last request of the run, and the run has ended with a non-zero status and
\* without an output file.
C11_QuotaAborts ==
    prog = "youtube" =>
        \A k \in DOMAIN requests :
            403 \in Range(requests[k].tried) =>
                /\ requests[k].tried = <<403>>
                /\ k = Len(requests)
                /\ pc = "done"
                /\ exit_status \notin {"running", "0"}
                /\ csv = NoFile

\* the quota error met by the channel statistics request, after a search and a
\* video statistics request that succeeded
C11_Witness ==
    /\ prog = "youtube" /\ Len(requests) = 3
    /\ requests[1].api = "search" /\ requests[1].status = 200
    /\ requests[2].api = "videos" /\ requests[2].status = 200
    /\ requests[3].api = "channels" /\ requests[3].tried = <<403>>
    /\ exit_status = "1"

\* the records of `videos` that filter_videos kept: it stored a subscriber count
\* into exactly those
Kept(vs) == SelectSeq(vs, LAMBDA v : v.subscriber_count # NoneVal)

\* C12: a completed export holds the fixed header and one row per record
\* filter_videos returned, in the order these records have in the filter's
\* input; a row holds title, watch URL of the identifier, channel name, view
\* count and subscriber count; exporting the same list again gives the same rows.
C12_RowsInFilterOrder ==
    csv.state = "closed" =>
        /\ csv.header = CsvHeader
        /\ filtered = Kept(videos)
        /\ Len(csv.rows) = Len(filtered)
        /\ \A k \in DOMAIN csv.rows :
              csv.rows[k] =
                  [title |-> filtered[k].title,
                   url |-> WatchUrl \o filtered[k].video_id,
                   channel_name |-> IF prog = "innertube" THEN filtered[k].channel_name
                                    ELSE filtered[k].channel_title,
                   view_count |-> filtered[k].view_count,
                   subscriber_count |-> filtered[k].subscriber_count]
        /\ prog = "innertube" => export_to_csv_it(filtered).rows = csv.rows
        /\ prog = "youtube" => export_to_csv_yt(filtered).rows = csv.rows

\* a file of two different rows written by the InnerTube export
C12_Witness ==
    /\ prog = "innertube" /\ csv.state = "closed"
    /\ Len(csv.rows) = 2 /\ csv.rows[1] # csv.rows[2]
    /\ csv.rows[1].url = WatchUrl \o videos[1].video_id

\* the first run of digits, commas and points of a text
RunStart(text) ==
    CHOOSE i \in DOMAIN text : IsNumChar(text[i]) /\ \A j \in 1..(i - 1) : ~ IsNumChar(text[j])

FirstRun(text) == SubSeq(text, RunStart(text), RunEnd(text, RunStart(text)))

\* the run is a decimal number: it holds a digit and at most one point
IsDecimal(r) ==
    /\ \E i \in DOMAIN r : IsDigit(r[i])
    /\ Cardinality({i \in DOMAIN r : r[i] = "."}) <= 1

\* the decimal number of the run, commas removed, times scale, truncated
ExactCount(r, scale) ==
    LET plain == SelectSeq(r, LAMBDA c : c # ",")
        decimals == IF \E i \in DOMAIN plain : plain[i] = "."
                    THEN Len(plain) - (CHOOSE i \in DOMAIN plain : plain[i] = ".")
                    ELSE 0
    IN (DigitsValue(SelectSeq(plain, LAMBDA c : c # ".")) * scale) \div Pow10(decimals)

\* C13: _parse_subscriber_count returns None for a text without a digit, and for
\* a text whose first run of digits, commas and points is a decimal number
\* directly followed by its unit or by no unit, that number times the scale of
\* the unit, truncated to an integer.
C13_ExactDecimalCount ==
    (prog = "parse" /\ pc = "done") =>
        /\ (~ \E i \in DOMAIN input : IsDigit(input[i])) => output.ret = NoneVal
        /\ (\E i \in DOMAIN input : IsDigit(input[i])) =>
              LET r == FirstRun(input)
                  next == RunEnd(input, RunStart(input)) + 1
                  unit == IF next <= Len(input) /\ IsUnit(input[next]) THEN input[next]
                          ELSE ""
              IN (IsDecimal(r) /\ ~ (next <= Len(input) /\ IsSpace(input[next]))) =>
                    output.ret = ExactCount(r, UnitScale(unit))

\* the call of _execute_with_retry has ended
Retried == prog = "retry" /\ pc = "done"

\* C14: _execute_with_retry executes the request at most max_retries (3) times;
\* every execution but the last failed with 500 or 503 and was followed by a
\* wait of 2^attempt seconds (1, then 2); a 200 returns the response at once; a
\* failure with another status is raised at once; a 500 or 503 is raised only
\* when it is the answer of the third execution.
C14_BoundedRetry ==
    Retried =>
        LET n == output.executions
        IN /\ n \in 1..MaxRetries
           /\ \A k \in 1..(n - 1) : input[k] \in {500, 503}
           /\ output.waits = [k \in 1..(n - 1) |-> 2 ^ (k - 1)]
           /\ input[n] = 200 => output.result = "ok"
           /\ input[n] # 200 =>
                 /\ output.result = "raise"
                 /\ output.status = input[n]
                 /\ input[n] \in {500, 503} => n = MaxRetries
           /\ input[1] \notin {500, 503} => n = 1 /\ output.waits = <<>>

\* three server errors in a row: three executions, waits of 1 and 2 seconds,
\* the last error raised
C14_Witness ==
    /\ Retried
    /\ input = <<500, 503, 500>>
    /\ output.executions = 3 /\ output.waits = <<1, 2>>
    /\ output.result = "raise" /\ output.status = 500

\* search_videos is running or has ended
Searching == prog = "search"

\* an iteration of the loop of search_videos, which sends one request
Requested == Searching /\ output'.request # output.request

\* every request asks for min(50, max_results - collected) items and carries
\* the token of the previous page
C15_RequestSize ==
    [][Requested =>
          /\ output'.request.max = Min(50, input.max_results - Len(videos))
          /\ output'.request.token = next_page_token
          /\ Len(videos) < input.max_results
          /\ (output.request # NoRequest => next_page_token # "")]_vars

\* the list holds at most max_results entries as long as no page held more
\* items than requested, and the call returns only with max_results collected
\* or after a page without token
C15_AtMostMaxResults ==
    Searching =>
        /\ output.honest => Len(videos) <= input.max_results
        /\ output.result = "return" =>
              Len(videos) >= input.max_results \/ next_page_token = ""

\* C15: search_videos requests a further page exactly when fewer than
\* max_results results are collected and the previous response carried a token,
\* each request asks for min(50, max_results - collected) items, the list never
\* exceeds max_results when no page exceeds its request, and the loop
\* terminates for every paged source.
C15_PagedLoop ==
    /\ C15_RequestSize
    /\ []C15_AtMostMaxResults
    /\ <>(Searching => pc = "done")

\* the call of get_channel_subscribers made by this step
ThisCall == calls'[Len(calls')]

\* C16: a call of get_channel_subscribers, of either variant, looks up only ids
\* that were not in the cache before it, leaves every entry that was in the
\* cache before it in place with its value, and, when it returns, returns for
\* each id that was cached before it the value cached before it.
C16_CachedUntouched ==
    [][/\ \A c \in DOMAIN channel_cache :
             c \in DOMAIN channel_cache' /\ channel_cache'[c] = channel_cache[c]
       /\ Len(calls') = Len(calls) + 1
       /\ \A c \in Range(ThisCall.looked) : c \notin DOMAIN channel_cache
       /\ ~ThisCall.raised =>
             \A c \in Range(ThisCall.ids) \cap DOMAIN channel_cache :
                 ThisCall.ret[c] = channel_cache[c]]_vars

\* a second call that asks for a cached id, one of them cached as None, and an
\* uncached one: it looks up the uncached id only
C16_Witness ==
    /\ Len(calls) = 2
    /\ ~calls[1].raised /\ ~calls[2].raised
    /\ calls[1].ids = <<"UC1">> /\ calls[1].looked = <<"UC1">>
    /\ calls[2].ids = <<"UC2", "UC1">> /\ calls[2].looked = <<"UC2">>
    /\ "UC1" \in DOMAIN channel_cache
    /\ calls[2].ret["UC1"] = calls[1].ret["UC1"]

\* the batched call has ended
Batched == prog = "batch" /\ pc = "done"

\* the ids the call has to ask the API for
ToLookUp ==
    IF input.api = "videos" THEN input.ids
    ELSE SelectSeq(input.ids, LAMBDA c : c \notin DOMAIN output.before)

\* the ids of the first k requests, one after the other
RECURSIVE IdsSent(_)
IdsSent(k) == IF k = 0 THEN <<>> ELSE IdsSent(k - 1) \o requests[k].ids

\* what a returned mapping holds for an id the API has an answer for
Answered(id) ==
    IF output.answers[id].k = "num" THEN output.answers[id].v ELSE 0

\* C17: for a list of n ids to look up (all video ids; the channel ids not in
\* the cache), every request carries between 1 and 50 ids and the requests
\* carry the ids in input order, each once; a call that returns has issued
\* exactly ceil(n/50) requests (none for n = 0) and its mapping holds the
\* answers of all chunks; a call ended by a failed request has issued the
\* requests up to that one.
C17_BatchesOfFifty ==
    Batched =>
        LET n == Len(ToLookUp)
            sent == IdsSent(Len(requests))
        IN /\ \A k \in DOMAIN requests : Len(requests[k].ids) \in 1..50
           /\ Len(sent) <= n /\ sent = SubSeq(ToLookUp, 1, Len(sent))
           /\ Len(requests) * 50 < n + 50
           /\ n = 0 => requests = <<>>
           /\ ~output.raised =>
                 /\ Len(requests) = (n + 49) \div 50
                 /\ sent = ToLookUp
                 /\ \A id \in Range(ToLookUp) :
                       IF output.answers[id].k = "missing"
                       THEN DictGet(output.ret, id) = NoneVal
                       ELSE id \in DOMAIN output.ret /\ output.ret[id] = Answered(id)
           /\ output.raised =>
                 /\ requests # <<>>
                 /\ requests[Len(requests)].status # 200
                 /\ \A k \in 1..(Len(requests) - 1) : requests[k].status = 200

\* 101 video ids: three requests of 50, 50 and 1 ids, and the mapping holds an
\* answer of the first and of the last chunk
C17_Witness ==
    /\ Batched /\ input.api = "videos" /\ Len(input.ids) = 101 /\ ~output.raised
    /\ Len(requests) = 3
    /\ Len(requests[1].ids) = 50 /\ Len(requests[2].ids) = 50 /\ requests[3].ids = <<101>>
    /\ output.ret[1] = 1 /\ output.ret[101] = 101

\* 60 channel ids of which 12 are cached: one request of the 48 others
C17_WitnessChannels ==
    /\ Batched /\ input.api = "channels" /\ Len(input.ids) = 60 /\ ~output.raised
    /\ DOMAIN output.before # {}
    /\ Len(requests) = 1 /\ Len(requests[1].ids) = 48

====
